---- MODULE Spec2Model ----
(***************************************************************************)
(* Model of libp2p/NodeTable.cpp: the Kademlia-style node table with its   *)
(* eviction probes, the discovery lookup and the packet dispatcher.        *)
(*                                                                         *)
(* Every handler of the source (addNode, dropNode, onPacketReceived and    *)
(* the three timer callbacks) is one action that runs to completion.       *)
(* The handlers are written as operators over a record `st` holding the    *)
(* member variables, so that a handler that calls another one (addNode ->  *)
(* noteActiveNode -> evict -> ping) is the composition of the operators.   *)
(*                                                                         *)
(* NodeEntry objects are named by handles <<id, gen>>.  m_allNodes and the *)
(* tried set captured by the discovery timer hold shared_ptr (strong)      *)
(* references, the buckets hold weak_ptr: a bucket slot whose entry has no *)
(* strong owner left is the token Expired (lock() fails on it and it       *)
(* compares unequal to every shared_ptr).                                  *)
(*                                                                         *)
(* Time is counted in ticks; a time point is kept as its age, saturating   *)
(* one tick above c_reqTimeout, which is all the comparisons in the source *)
(* can tell apart.  m_findNodeTimeout is a std::list whose order and       *)
(* multiplicities no code reads: it is kept as the set of its elements.    *)
(* Ports, the TCP side of an endpoint and m_hostNode.endpoint (only copied *)
(* into outgoing Pings) are not modelled.                                  *)
(*                                                                         *)
(* The destructor stops the timers; the callbacks of the timers that were  *)
(* pending then run with operation_aborted or find m_timers stopped.       *)
(*                                                                         *)
(* The four mutexes are modelled apart from the data: a thread runs the    *)
(* lock, unlock, send, schedule and appendEvent steps of one path through  *)
(* a function, and the threads interleave step by step (ThreadSpec).       *)
(* addNode for an unknown node is also run statement by statement over the *)
(* table itself, by several threads at once (RaceSpec).                    *)
(*                                                                         *)
(* The event handler is kept as the number, per id, of NodeEntryAdded      *)
(* events it was given that no NodeEntryDropped has matched yet; the count *)
(* is followed for the ids named at construction (EventSpec follows all,   *)
(* the other specifications none).                                         *)
(***************************************************************************)
EXTENDS Integers, Sequences, FiniteSets, TLC

(* ---- sizes: the table's constants scaled down, and the bounds ---------- *)
s_bins == 3
s_bucketSize == 2
s_alpha == 1
s_maxSteps == 2
c_reqTimeout == 1
MaxSweepTimers == 2
MaxEvictions == 1
MaxNeighbours == 1
MaxUnmatched == 2
nlimit == 13

(* ---- identities -------------------------------------------------------- *)
ZeroID == 0
hostId == 1
Peers == {2, 4, 5, 6}
NodeIDs == {hostId} \cup Peers
LocalPeers == {5}

NoGen == 0 - 1
Expired == <<ZeroID, NoGen>>
Null == <<ZeroID, 0 - 2>>

Endpoints == {"unspec", "local", "pub"}
FromAddrs == {"local", "pub"}

isAllowed(ep) == ep = "pub"
isSpecified(ep) == ep # "unspec"

(* ---- distance ---------------------------------------------------------- *)
Keccak(id) == (5 * id + 3) % 8

RECURSIVE Xor(_, _)
Xor(a, b) ==
  IF a = 0 /\ b = 0 THEN 0
  ELSE (((a % 2) + (b % 2)) % 2) + (2 * Xor(a \div 2, b \div 2))

RECURSIVE BitLen(_)
BitLen(n) == IF n = 0 THEN 0 ELSE 1 + BitLen(n \div 2)

\* every id a caller, a datagram or a lookup can name
IdSpace == {ZeroID, 3} \cup NodeIDs

\* the distances, computed once
Distances ==
  [a \in IdSpace |-> [b \in IdSpace |-> BitLen(Xor(Keccak(a), Keccak(b)))]]

distance(a, b) == Distances[a][b]

(* ---- state ------------------------------------------------------------- *)
VARIABLES
  m_allNodes,        \* NodeID -> gen of the owned NodeEntry, or NoGen
  heap,              \* live handle -> [pending, endpoint, distance]
  m_buckets,         \* bucket index -> sequence of handles (weak)
  m_evictions,       \* incumbent id -> [newNodeID, age]
  m_findNodeTimeout, \* set of <<queried id, age>>
  sweepTimers,       \* pending doCheckEvictions timers
  lookup,            \* the discovery timer and what its callback captured
  isOpen,            \* m_socketPointer->isOpen()
  isStopped,         \* m_timers.isStopped()
  sent,              \* packets handed to m_socketPointer->send by the last step
  events,            \* events appended to m_nodeEventHandler by the last step
  unmatched,         \* followed NodeID -> NodeEntryAdded events the handler
                     \* was given that no later NodeEntryDropped has matched
  last,              \* the last step taken and its inputs
  threads            \* thread -> the steps left of its call, the locks it holds

vars == <<m_allNodes, heap, m_buckets, m_evictions, m_findNodeTimeout,
          sweepTimers, lookup, isOpen, isStopped, sent, events, unmatched,
          last, threads>>

m_nodeEventHandler == TRUE

\* the executor, which runs the packet handler and the timer callbacks, and
\* the threads of the callers
Threads == {"executor", "caller1", "caller2"}
NoNode == [id |-> ZeroID, ep |-> "unspec"]
Idle == [prog |-> <<>>, held |-> <<>>, at |-> "idle", node |-> NoNode, did |-> {}]

Bins == 0 .. (s_bins - 1)
AgeMax == c_reqTimeout + 1

NoLookup(timer) == [timer |-> timer, node |-> hostId, round |-> 0, tried |-> {}]

Cur ==
  [nodes |-> m_allNodes, heap |-> heap, buckets |-> m_buckets,
   evict |-> m_evictions, fnt |-> m_findNodeTimeout, sweeps |-> sweepTimers,
   tried |-> lookup.tried, open |-> isOpen, sent |-> <<>>, events |-> <<>>]

\* The event handler after the events es, in the order appended; only the
\* events of the ids that are followed are counted.  The count of an id is
\* exact below MaxUnmatched; once it reaches MaxUnmatched it stays there, as
\* a count that is no longer known.
Match(n, kind) ==
  IF n = MaxUnmatched THEN n
  ELSE IF kind = "NodeEntryAdded" THEN n + 1
  ELSE IF n > 0 THEN n - 1
  ELSE n

RECURSIVE Deliver(_, _)
Deliver(u, es) ==
  IF es = <<>> THEN u
  ELSE LET e == Head(es) IN
       Deliver([i \in DOMAIN u |-> IF i = e.id THEN Match(u[i], e.kind) ELSE u[i]],
               Tail(es))

Assign(st) ==
  /\ m_allNodes' = st.nodes
  /\ heap' = st.heap
  /\ m_buckets' = st.buckets
  /\ m_evictions' = st.evict
  /\ m_findNodeTimeout' = st.fnt
  /\ sweepTimers' = st.sweeps
  /\ sweepTimers' <= MaxSweepTimers
  /\ Cardinality(DOMAIN st.evict) <= MaxEvictions
  /\ sent' = st.sent
  /\ events' = st.events
  /\ unmatched' = Deliver(unmatched, st.events)

\* a handler taken as one step: no other thread moves within it
Commit(st) ==
  /\ Assign(st)
  /\ UNCHANGED threads

\* a handler that is not the lookup's leaves the discovery timer as it is
Handled(st) ==
  /\ Commit(st)
  /\ lookup' = [lookup EXCEPT !.tried = st.tried]
  /\ UNCHANGED <<isOpen, isStopped>>

(* ---- ownership --------------------------------------------------------- *)
Owned(st) ==
  {<<i, st.nodes[i]>> : i \in {j \in NodeIDs : st.nodes[j] # NoGen}} \cup st.tried

\* Entries without a strong owner are freed; weak references to them expire.
Release(st) ==
  LET own == Owned(st) IN
  [st EXCEPT
     !.heap = [h \in own |-> st.heap[h]],
     !.buckets = [b \in Bins |->
        [k \in 1 .. Len(st.buckets[b]) |->
           IF st.buckets[b][k] \in own THEN st.buckets[b][k] ELSE Expired]]]

\* Handles are names: the entry m_allNodes owns for an id is always
\* <<id, 0>>.  An entry that lost that place but is still held by the tried
\* set is renamed to the first free <<id, g>>, g >= 1, wherever it is referenced.
Retire(st, id) ==
  LET old == <<id, 0>>
      g == CHOOSE n \in 1 .. (Cardinality(st.tried) + 1) :
             /\ <<id, n>> \notin st.tried
             /\ \A k \in 1 .. (n - 1) : <<id, k>> \in st.tried
      new == <<id, g>>
      Ren(h) == IF h = old THEN new ELSE h
  IN IF old \notin st.tried THEN st
     ELSE [st EXCEPT
             !.tried = {Ren(h) : h \in st.tried},
             !.heap = [h \in {Ren(x) : x \in DOMAIN st.heap} |->
                         IF h = new THEN st.heap[old] ELSE st.heap[h]],
             !.buckets = [b \in Bins |->
                [k \in 1 .. Len(st.buckets[b]) |-> Ren(st.buckets[b][k])]]]

\* m_allNodes[id] = make_shared<NodeEntry>(...): the entry owned before, if
\* any, loses this owner.
StoreEntry(st, id, rec) ==
  LET st1 == Retire(Release([st EXCEPT !.nodes[id] = NoGen]), id)
      h == <<id, 0>>
  IN [st1 EXCEPT
        !.nodes[id] = 0,
        !.heap = [x \in (DOMAIN st1.heap) \cup {h} |->
                    IF x = h THEN rec ELSE st1.heap[x]]]

nodeEntry(st, id) ==
  IF id \in NodeIDs /\ st.nodes[id] # NoGen THEN <<id, st.nodes[id]>> ELSE Null

Send(st, pkt) == [st EXCEPT !.sent = Append(@, pkt)]

appendEvent(st, id, kind) ==
  IF m_nodeEventHandler
    THEN [st EXCEPT !.events = Append(@, [kind |-> kind, id |-> id])]
    ELSE st

ping(st, toId) == Send(st, [type |-> "Ping", to |-> toId])

\* the entry that starts with pending cleared
NodeEntry_notPending(src, pubk, gw) ==
  [pending |-> FALSE, endpoint |-> gw, distance |-> distance(src, pubk)]

\* NodeEntry::NodeEntry: distance is set once, against the host's id;
\* pending starts true
NodeEntry(src, pubk, gw) ==
  [pending |-> TRUE, endpoint |-> gw, distance |-> distance(src, pubk)]

\* the slip of indexing by the distance itself
bucket_byDistance(st, n) == st.heap[n].distance % s_bins

bucket_UNSAFE(st, n) == st.heap[n].distance - 1

(* ---- eviction ---------------------------------------------------------- *)
\* the probe that pings the replacement instead of the incumbent
evict_pingNew(st, leastSeen, new) ==
  IF ~st.open THEN st
  ELSE
    LET key == leastSeen[1]
        ev == IF key \in DOMAIN st.evict
                THEN st.evict
                ELSE [k \in (DOMAIN st.evict) \cup {key} |->
                        IF k = key THEN [newNodeID |-> new[1], age |-> 0]
                        ELSE st.evict[k]]
        st1 == [st EXCEPT !.evict = ev]
        st2 == IF Cardinality(DOMAIN ev) = 1
                 THEN [st1 EXCEPT !.sweeps = @ + 1]
                 ELSE st1
    IN ping(st2, new[1])

evict(st, leastSeen, new) ==
  IF ~st.open THEN st
  ELSE
    LET key == leastSeen[1]
        ev == IF key \in DOMAIN st.evict
                THEN st.evict
                ELSE [k \in (DOMAIN st.evict) \cup {key} |->
                        IF k = key THEN [newNodeID |-> new[1], age |-> 0]
                        ELSE st.evict[k]]
        st1 == [st EXCEPT !.evict = ev]
        st2 == IF Cardinality(DOMAIN ev) = 1
                 THEN [st1 EXCEPT !.sweeps = @ + 1]
                 ELSE st1
    IN ping(st2, key)

\* the call that does not look for the node in its bucket
noteActiveNode_noFind(st, pubk, from) ==
  IF pubk = hostId \/ ~isAllowed(from) THEN st
  ELSE
    LET newNode == nodeEntry(st, pubk) IN
    IF newNode = Null THEN st
    ELSE IF st.heap[newNode].pending THEN st
    ELSE
      LET st1 == [st EXCEPT !.heap[newNode].endpoint = from]
          s == bucket_UNSAFE(st1, newNode)
          nodes == st1.buckets[s]
      IN
      IF Len(nodes) < s_bucketSize
        THEN appendEvent([st1 EXCEPT !.buckets[s] = Append(nodes, newNode)],
                         pubk, "NodeEntryAdded")
      ELSE IF Head(nodes) = Expired
        THEN appendEvent([st1 EXCEPT !.buckets[s] = Append(Tail(nodes), newNode)],
                         pubk, "NodeEntryAdded")
      ELSE evict(st1, Head(nodes), newNode)

noteActiveNode(st, pubk, from) ==
  IF pubk = hostId \/ ~isAllowed(from) THEN st
  ELSE
    LET newNode == nodeEntry(st, pubk) IN
    IF newNode = Null THEN st
    ELSE IF st.heap[newNode].pending THEN st
    ELSE
      LET st1 == [st EXCEPT !.heap[newNode].endpoint = from]
          s == bucket_UNSAFE(st1, newNode)
          nodes == st1.buckets[s]
      IN
      IF \E k \in 1 .. Len(nodes) : nodes[k] = newNode
        THEN [st1 EXCEPT !.buckets[s] =
                Append(SelectSeq(nodes, LAMBDA x : x # newNode), newNode)]
      ELSE IF Len(nodes) < s_bucketSize
        THEN appendEvent([st1 EXCEPT !.buckets[s] = Append(nodes, newNode)],
                         pubk, "NodeEntryAdded")
      ELSE IF Head(nodes) = Expired
        THEN appendEvent([st1 EXCEPT !.buckets[s] = Append(Tail(nodes), newNode)],
                         pubk, "NodeEntryAdded")
      ELSE evict(st1, Head(nodes), newNode)

dropNode(st, n) ==
  LET s == bucket_UNSAFE(st, n)
      st1 == [st EXCEPT !.buckets[s] = SelectSeq(@, LAMBDA x : x # n)]
      st2 == Release([st1 EXCEPT !.nodes[n[1]] = NoGen])
  IN appendEvent(st2, n[1], "NodeEntryDropped")

(* ---- addNode ----------------------------------------------------------- *)
addNodeKnown(st, id, ep) ==
  LET nodeEntry0 == [NodeEntry(hostId, id, ep) EXCEPT !.pending = FALSE]
  IN noteActiveNode(StoreEntry(st, id, nodeEntry0), id, ep)

addNodeUnknown(st, id, ep) ==
  IF ~isSpecified(ep) \/ id = ZeroID THEN st
  ELSE IF st.nodes[id] # NoGen THEN st
  ELSE ping(StoreEntry(st, id, NodeEntry(hostId, id, ep)), id)

addNode(st, id, ep, relation) ==
  IF relation = "Known" THEN addNodeKnown(st, id, ep)
  ELSE addNodeUnknown(st, id, ep)

(* ---- nearestNodeEntries ------------------------------------------------ *)
\* the bucket indexes each of the three loops visits, in the order visited
RECURSIVE SpreadWalk(_, _)
SpreadWalk(head, tail) ==
  IF head # tail /\ head < s_bins
    THEN (IF tail # 0 THEN <<head, tail>> ELSE <<head>>)
         \o SpreadWalk(head + 1, IF tail # 0 THEN tail - 1 ELSE tail)
    ELSE <<>>

RECURSIVE ForwardWalk(_)
ForwardWalk(head) ==
  IF head < s_bins THEN <<head>> \o ForwardWalk(head + 1) ELSE <<>>

RECURSIVE ReverseWalk(_)
ReverseWalk(tail) ==
  IF tail > 0 THEN <<tail>> \o ReverseWalk(tail - 1) ELSE <<>>

\* the live entries of the buckets visited, in the order they are pushed
RECURSIVE Visited(_, _, _)
Visited(st, walk, i) ==
  IF i > Len(walk) THEN <<>>
  ELSE SelectSeq(st.buckets[walk[i]], LAMBDA n : n # Expired)
       \o Visited(st, walk, i + 1)

\* iteration of the map found: ascending distance to the target, and within
\* one distance the order of insertion
RECURSIVE Flatten(_, _, _)
Flatten(pushed, target, d) ==
  IF d > s_bins THEN <<>>
  ELSE SelectSeq(pushed, LAMBDA n : distance(target, n[1]) = d)
       \o Flatten(pushed, target, d + 1)

\* the first s_bucketSize entries whose endpoint is specified and allowed
TakeAllowed(st, all) ==
  LET ok == SelectSeq(all, LAMBDA n : /\ isSpecified(st.heap[n].endpoint)
                                     /\ isAllowed(st.heap[n].endpoint))
  IN SubSeq(ok, 1, IF Len(ok) < s_bucketSize THEN Len(ok) ELSE s_bucketSize)

nearestNodeEntries(st, target) ==
  LET lastBin == s_bins - 1
      head == distance(hostId, target)
      tail == IF head = 0 THEN lastBin ELSE (head - 1) % s_bins
      walk ==
        IF head > 1 /\ tail # lastBin THEN SpreadWalk(head, tail)
        ELSE IF head < 2 THEN ForwardWalk(head)
        ELSE ReverseWalk(tail)
  IN TakeAllowed(st, Flatten(Visited(st, walk, 1), target, 0))

(* ---- discovery --------------------------------------------------------- *)
\* doDiscovery(): schedule the random discovery bucket_refresh from now
doDiscovery(st) == [st |-> st, lookup |-> NoLookup("refresh")]

\* the first s_alpha entries of nearest that the tried set does not hold
SelectUntried(nearest, tried) ==
  LET fresh == SelectSeq(nearest, LAMBDA n : n \notin tried)
  IN SubSeq(fresh, 1, IF Len(fresh) < s_alpha THEN Len(fresh) ELSE s_alpha)

\* each chosen entry's id is pushed on m_findNodeTimeout with the current
\* time and a FindNode for the target is sent to it
SendFindNode(st, chosen, target) ==
  [st EXCEPT
     !.fnt = @ \cup {<<chosen[k][1], 0>> : k \in 1 .. Len(chosen)},
     !.sent = @ \o [k \in 1 .. Len(chosen) |->
                      [type |-> "FindNode", to |-> chosen[k][1]]]]

\* the lookup that ends without scheduling the next random discovery when a
\* round finds no candidate
doDiscover_noReschedule(st, node, round, tried) ==
  IF ~st.open THEN [st |-> Release([st EXCEPT !.tried = {}]), lookup |-> NoLookup("none")]
  ELSE IF round = s_maxSteps
    THEN doDiscovery(Release([st EXCEPT !.tried = {}]))
  ELSE
    LET nearest == nearestNodeEntries(st, node)
        chosen == SelectUntried(nearest, tried)
        st1 == SendFindNode(st, chosen, node)
        all == tried \cup {chosen[k] : k \in 1 .. Len(chosen)}
    IN IF chosen = <<>>
         THEN [st |-> Release([st EXCEPT !.tried = {}]), lookup |-> NoLookup("none")]
         ELSE [st |-> [st1 EXCEPT !.tried = all],
               lookup |-> [timer |-> "round", node |-> node,
                           round |-> round, tried |-> all]]

\* the result is the members after the call and the discovery timer it left
doDiscover(st, node, round, tried) ==
  IF ~st.open THEN [st |-> Release([st EXCEPT !.tried = {}]), lookup |-> NoLookup("none")]
  ELSE IF round = s_maxSteps
    THEN doDiscovery(Release([st EXCEPT !.tried = {}]))
  ELSE
    LET nearest == nearestNodeEntries(st, node)
        chosen == SelectUntried(nearest, tried)
        st1 == SendFindNode(st, chosen, node)
        all == tried \cup {chosen[k] : k \in 1 .. Len(chosen)}
    IN IF chosen = <<>>
         THEN doDiscovery(Release([st EXCEPT !.tried = {}]))
         ELSE [st |-> [st1 EXCEPT !.tried = all],
               lookup |-> [timer |-> "round", node |-> node,
                           round |-> round, tried |-> all]]

(* ---- datagrams --------------------------------------------------------- *)
Faults == {"tooSmall", "badHash", "badSignature", "unknownType", "bodyDecode",
           "expired"}
PacketTypes == {"PingNode", "Pong", "FindNode", "Neighbours"}

NeighbourNodes(named) ==
  {[id |-> i, ep |-> "pub"] : i \in named} \cup {[id |-> i, ep |-> "unspec"] : i \in named \ {ZeroID, hostId}}

RECURSIVE SeqsUpTo(_, _)
SeqsUpTo(S, n) ==
  IF n = 0 THEN {<<>>}
  ELSE LET shorter == SeqsUpTo(S, n - 1)
       IN shorter \cup {Append(q, x) : q \in shorter, x \in S}

Datagram(type, src, from, fault, target, neighbours) ==
  [type |-> type, sourceid |-> src, from |-> from, fault |-> fault,
   target |-> target, neighbours |-> neighbours]

\* addresses a datagram of each peer can come from, and the endpoints a caller
\* can name for it
AddrsOf(id) == IF id \in LocalPeers THEN {"local", "pub"} ELSE {"pub"}

\* well-formed datagrams: Pings and Pongs from the addresses a peer can send
\* from, FindNodes for the targets, Neighbours naming up to MaxNeighbours of
\* the named nodes
Pings(peers) ==
  UNION {{Datagram("PingNode", i, f, "none", hostId, <<>>) : f \in AddrsOf(i)} :
           i \in peers}

Pongs(peers) ==
  UNION {{Datagram("Pong", i, f, "none", hostId, <<>>) : f \in AddrsOf(i)} :
           i \in peers}

FindNodes(peers, targets) ==
  {Datagram("FindNode", i, "pub", "none", t, <<>>) : i \in peers, t \in targets}

NeighboursFrom(peers, named) ==
  {Datagram("Neighbours", i, "pub", "none", hostId, n) :
     i \in peers, n \in SeqsUpTo(NeighbourNodes(named), MaxNeighbours)}

\* one datagram per fault
Faulty(peer, faults) ==
  {Datagram("PingNode", peer, "pub", x, hostId, <<>>) : x \in faults}

NullPacket == Datagram("null", ZeroID, "unspec", "none", ZeroID, <<>>)
Throw == Datagram("throw", ZeroID, "unspec", "none", ZeroID, <<>>)

\* the decoder without the comparison of the hash
interpretUDP_noHashCheck(p) ==
  IF p.fault = "tooSmall" THEN NullPacket
  ELSE IF p.fault = "badSignature" THEN NullPacket
  ELSE IF p.fault = "unknownType" THEN NullPacket
  ELSE IF p.fault = "bodyDecode" THEN Throw
  ELSE p

\* the decoded packet, NullPacket (an empty unique_ptr), or Throw when
\* interpretRLP throws on the body
interpretUDP(p) ==
  IF p.fault = "tooSmall" THEN NullPacket
  ELSE IF p.fault = "badHash" THEN NullPacket
  ELSE IF p.fault = "badSignature" THEN NullPacket
  ELSE IF p.fault = "unknownType" THEN NullPacket
  ELSE IF p.fault = "bodyDecode" THEN Throw
  ELSE p

isExpired(p) == p.fault = "expired"

(* ---- onPacketReceived -------------------------------------------------- *)
\* the Pong handler that resolves the probe but keeps the replacement
onPong_keepNew(st, in) ==
  LET src == in.sourceid
      found == /\ src \in DOMAIN st.evict
               /\ st.evict[src].age <= c_reqTimeout
  IN IF found
       THEN LET st1 == [st EXCEPT !.evict =
                          [k \in (DOMAIN st.evict) \ {src} |-> st.evict[k]]]
                n2 == nodeEntry(st1, src)
            IN IF n2 # Null THEN [st1 EXCEPT !.heap[n2].pending = FALSE] ELSE st1
       ELSE LET n == nodeEntry(st, src)
            IN IF n # Null THEN [st EXCEPT !.heap[n].pending = FALSE] ELSE st

onPong(st, in) ==
  LET src == in.sourceid
      found == /\ src \in DOMAIN st.evict
               /\ st.evict[src].age <= c_reqTimeout
  IN IF found
       THEN LET evictionEntry == st.evict[src]
                st1 == [st EXCEPT !.evict =
                          [k \in (DOMAIN st.evict) \ {src} |-> st.evict[k]]]
                n1 == nodeEntry(st1, evictionEntry.newNodeID)
                st2 == IF n1 # Null THEN dropNode(st1, n1) ELSE st1
                n2 == nodeEntry(st2, src)
            IN IF n2 # Null THEN [st2 EXCEPT !.heap[n2].pending = FALSE] ELSE st2
       ELSE LET n == nodeEntry(st, src)
            IN IF n # Null THEN [st EXCEPT !.heap[n].pending = FALSE] ELSE st

RECURSIVE AddNeighbours(_, _)
AddNeighbours(st, ns) ==
  IF ns = <<>> THEN st
  ELSE AddNeighbours(addNode(st, Head(ns).id, Head(ns).ep, "Unknown"), Tail(ns))

\* the handler taking any entry for the source as a match, whatever its age
onNeighbours_anyAge(st, in) ==
  LET src == in.sourceid
      expected == \E t \in st.fnt : t[1] = src
      st1 == [st EXCEPT !.fnt =
                {t \in @ : ~(t[1] = src /\ ~(t[2] < c_reqTimeout))}]
  IN IF ~expected THEN st1 ELSE AddNeighbours(st1, in.neighbours)

\* the remove_if drops the stale entries for the source and keeps the others;
\* the packet's nodes are added only when a fresh entry was seen
onNeighbours(st, in) ==
  LET src == in.sourceid
      expected == \E t \in st.fnt : t[1] = src /\ t[2] < c_reqTimeout
      st1 == [st EXCEPT !.fnt =
                {t \in @ : ~(t[1] = src /\ ~(t[2] < c_reqTimeout))}]
  IN IF ~expected THEN st1 ELSE AddNeighbours(st1, in.neighbours)

RECURSIVE SendNeighbours(_, _, _, _)
SendNeighbours(st, to, size, offset) ==
  IF offset < size
    THEN SendNeighbours(Send(st, [type |-> "Neighbours", to |-> to]),
                        to, size, offset + nlimit)
    ELSE st

onFindNode(st, in) ==
  SendNeighbours(st, in.sourceid, Len(nearestNodeEntries(st, in.target)), 0)

\* the hash of a frame, which covers the signature, the type and the body
echo(p) == <<p.sourceid, p.type, p.target, p.neighbours>>

onPingNode(st, in) ==
  Send(addNode(st, in.sourceid, in.from, "Unknown"),
       [type |-> "Pong", to |-> in.sourceid, echo |-> echo(in)])

onPacketReceived(st, raw) ==
  LET packet == interpretUDP(raw) IN
  IF packet = NullPacket THEN st
  ELSE IF packet = Throw THEN st
  ELSE IF isExpired(packet) THEN st
  ELSE
    LET st1 == CASE packet.type = "Pong" -> onPong(st, packet)
                 [] packet.type = "Neighbours" -> onNeighbours(st, packet)
                 [] packet.type = "FindNode" -> onFindNode(st, packet)
                 [] packet.type = "PingNode" -> onPingNode(st, packet)
    IN noteActiveNode(st1, packet.sourceid, packet.from)

(* ---- doCheckEvictions -------------------------------------------------- *)
RECURSIVE SortedSeq(_)
SortedSeq(S) ==
  IF S = {} THEN <<>>
  ELSE LET m == CHOOSE x \in S : \A y \in S : x <= y
       IN <<m>> \o SortedSeq(S \ {m})

RECURSIVE DropAll(_, _)
DropAll(st, drop) ==
  IF drop = <<>> THEN st ELSE DropAll(dropNode(st, Head(drop)), Tail(drop))

RECURSIVE ActivateAll(_, _)
ActivateAll(st, active) ==
  IF active = <<>> THEN st
  ELSE ActivateAll(noteActiveNode(st, Head(active)[1], Head(active)[2]),
                   Tail(active))

\* the timer callback; m_evictions is a map keyed by NodeID, walked in key order
checkEvictions(st) ==
  LET timedOut == SortedSeq({k \in DOMAIN st.evict :
                               st.evict[k].age > c_reqTimeout})
      hit == SelectSeq(timedOut, LAMBDA k : nodeEntry(st, k) # Null)
      drop == [i \in 1 .. Len(hit) |-> nodeEntry(st, hit[i])]
      repl == SelectSeq(hit, LAMBDA k : nodeEntry(st, st.evict[k].newNodeID) # Null)
      \* active keeps shared_ptrs: id and endpoint are read from the entry held
      active == [i \in 1 .. Len(repl) |->
                   LET n == nodeEntry(st, st.evict[repl[i]].newNodeID)
                   IN <<n[1], st.heap[n].endpoint>>]
      gone == {hit[i] : i \in 1 .. Len(hit)}
      st1 == [st EXCEPT !.evict = [k \in (DOMAIN st.evict) \ gone |-> st.evict[k]]]
      \* the table after the drops, and after the activations that follow them
      dropped == {DropAll(st1, drop)}
      activated == {ActivateAll(d, active) : d \in dropped}
  IN CHOOSE st2 \in {IF DOMAIN a.evict # {} THEN a ELSE [a EXCEPT !.sweeps = @ - 1] :
                       a \in activated} : TRUE

(* ---- actions ----------------------------------------------------------- *)
Step(op, id, ep, type, fault) ==
  [op |-> op, id |-> id, ep |-> ep, type |-> type, fault |-> fault]

\* the table after construction, with an event handler whose events are
\* followed for the ids in followed
New(followed) ==
  \E enabled \in BOOLEAN :
    /\ m_allNodes = [i \in NodeIDs |-> NoGen]
    /\ heap = <<>>
    /\ m_buckets = [b \in Bins |-> <<>>]
    /\ m_evictions = <<>>
    /\ m_findNodeTimeout = {}
    /\ sweepTimers = 0
    /\ isOpen = enabled
    /\ isStopped = FALSE
    /\ lookup = NoLookup(IF enabled THEN "refresh" ELSE "none")
    /\ sent = <<>>
    /\ events = <<>>
    /\ unmatched = [i \in followed |-> 0]
    /\ last = Step("new", hostId, "unspec", "none", "none")
    /\ threads = [t \in Threads |-> Idle]

Init == New({})

\* the nodes a caller can name: each id with the endpoints in eps it can have
Nodes(ids, eps) ==
  UNION {{[id |-> i, ep |-> e] : e \in eps \cap (AddrsOf(i) \cup {"unspec"})} :
           i \in ids}

AddNodeKnown(nodes) ==
  \E n \in nodes :
    /\ ~isStopped
    /\ Handled(addNode(Cur, n.id, n.ep, "Known"))
    /\ last' = Step("addNodeKnown", n.id, n.ep, "none", "none")

AddNodeUnknown(nodes) ==
  \E n \in nodes :
    /\ ~isStopped
    /\ Handled(addNode(Cur, n.id, n.ep, "Unknown"))
    /\ last' = Step("addNodeUnknown", n.id, n.ep, "none", "none")

\* drop of an entry the table owns; an entry at distance 0 is left out, as
\* bucket_UNSAFE then indexes m_buckets out of range
DropNode(ids) ==
  \E id \in ids :
    /\ ~isStopped
    /\ nodeEntry(Cur, id) # Null
    /\ heap[nodeEntry(Cur, id)].distance > 0
    /\ Handled(dropNode(Cur, nodeEntry(Cur, id)))
    /\ last' = Step("dropNode", id, "unspec", "none", "none")

Receive(datagrams) ==
  \E p \in datagrams :
    /\ isOpen
    /\ Handled(onPacketReceived(Cur, p))
    /\ last' = Step("onPacketReceived", p.sourceid, p.from, p.type, p.fault)

\* the error code a timer callback is called with: once the timers are
\* stopped the pending ones are cancelled, unless they had expired already
ErrorCodes == IF isStopped THEN {"operation_aborted", "none"} ELSE {"none"}

\* _ec.value() == operation_aborted || m_timers.isStopped()
Cancelled(ec) == ec = "operation_aborted" \/ isStopped

\* the sweep callback that runs whatever its error code is
CheckEvictionsTimer_noAbortCheck ==
  /\ sweepTimers > 0
  /\ \E ec \in ErrorCodes :
       \E st \in {checkEvictions(Cur)} :
         /\ Handled(st)
         /\ last' = Step("doCheckEvictions", hostId, "unspec", ec, "none")

CheckEvictionsTimer ==
  /\ sweepTimers > 0
  /\ \E ec \in ErrorCodes :
       \E st \in {IF Cancelled(ec)
                    THEN [Cur EXCEPT !.sweeps = @ - 1]
                    ELSE checkEvictions(Cur)} :
         /\ Handled(st)
         /\ last' = Step("doCheckEvictions", hostId, "unspec", ec, "none")

\* a cancelled discovery callback returns; the lambda and the tried set it
\* captured are destroyed
Return == [st |-> Release([Cur EXCEPT !.tried = {}]), lookup |-> NoLookup("none")]

DiscoveryTimer(targets) ==
  /\ lookup.timer = "refresh"
  /\ \E ec \in ErrorCodes : \E randNodeId \in targets :
       \E r \in {IF Cancelled(ec) THEN Return
                  ELSE doDiscover(Cur, randNodeId, 0, {})} :
          /\ Commit(r.st)
          /\ lookup' = r.lookup
          /\ last' = Step("doDiscovery", randNodeId, "unspec", ec, "none")
  /\ UNCHANGED <<isOpen, isStopped>>

DiscoverRoundTimer ==
  /\ lookup.timer = "round"
  /\ \E ec \in ErrorCodes :
       \E r \in {IF Cancelled(ec) THEN Return
                  ELSE doDiscover(Cur, lookup.node, lookup.round + 1, lookup.tried)} :
          /\ Commit(r.st)
          /\ lookup' = r.lookup
          /\ last' = Step("doDiscover", lookup.node, "unspec", ec, "none")
  /\ UNCHANGED <<isOpen, isStopped>>

\* ~NodeTable: the socket is disconnected and the timers are stopped
Shutdown ==
  /\ ~isStopped
  /\ isOpen' = FALSE
  /\ isStopped' = TRUE
  /\ sent' = <<>>
  /\ events' = <<>>
  /\ last' = Step("shutdown", hostId, "unspec", "none", "none")
  /\ UNCHANGED <<m_allNodes, heap, m_buckets, m_evictions, m_findNodeTimeout,
                 sweepTimers, lookup, unmatched, threads>>

Age(a) == IF a < AgeMax THEN a + 1 ELSE a

\* one tick of the steady clock passes
Tick ==
  /\ \/ \E k \in DOMAIN m_evictions : m_evictions[k].age < AgeMax
     \/ \E t \in m_findNodeTimeout : t[2] < c_reqTimeout
  /\ m_evictions' = [k \in DOMAIN m_evictions |->
                       [m_evictions[k] EXCEPT !.age = Age(@)]]
  /\ m_findNodeTimeout' =
       {<<t[1], IF t[2] < c_reqTimeout THEN t[2] + 1 ELSE t[2]>> :
          t \in m_findNodeTimeout}
  /\ sent' = <<>>
  /\ events' = <<>>
  /\ last' = Step("tick", hostId, "unspec", "none", "none")
  /\ UNCHANGED <<m_allNodes, heap, m_buckets, sweepTimers, lookup, isOpen,
                 isStopped, unmatched, threads>>

(* ---- the table with its eviction probes, between two lookups ----------- *)
TablePeers == {2, 4, 5}

Next ==
  \/ AddNodeKnown(Nodes(TablePeers, FromAddrs))
  \/ AddNodeUnknown(Nodes(TablePeers, {"pub"}))
  \/ DropNode(TablePeers)
  \/ Receive(Pings(TablePeers) \cup Pongs(TablePeers))
  \/ CheckEvictionsTimer
  \/ Tick

Spec == Init /\ [][Next]_vars

(* ---- callers and datagrams that name the host, no node, or nothing valid *)
InputPeers == {2, 4, 6}
InputDatagrams ==
  Pings(InputPeers \cup {hostId}) \cup Pongs(InputPeers \cup {hostId})
  \cup Faulty(2, Faults)

InputNext ==
  \/ AddNodeKnown(Nodes(InputPeers, {"pub"}))
  \/ AddNodeUnknown(Nodes({2, hostId, ZeroID}, {"pub"}) \cup Nodes({4}, {"unspec"}))
  \/ DropNode({2, 6})
  \/ Receive(InputDatagrams)
  \/ CheckEvictionsTimer
  \/ Tick

InputSpec == Init /\ [][InputNext]_vars

(* ---- the lookup running against the table ------------------------------ *)
LookupPeers == {2, 4}
LookupTargets == {3}
LookupDatagrams ==
  FindNodes({2}, LookupTargets) \cup NeighboursFrom(LookupPeers, {6})

LookupNext ==
  \/ AddNodeKnown(Nodes(LookupPeers, {"pub"}))
  \/ DropNode({2})
  \/ Receive(LookupDatagrams)
  \/ CheckEvictionsTimer
  \/ DiscoveryTimer(LookupTargets)
  \/ DiscoverRoundTimer
  \/ Tick

LookupSpec == Init /\ [][LookupNext]_vars

(* ---- the discovery timers, which fire once they are due ---------------- *)
\* one peer, whose entry callers replace and drop while lookups run, and the
\* Neighbours packets it sends
FairPeers == {2}

FairNext ==
  \/ AddNodeKnown(Nodes(FairPeers, {"pub"}))
  \/ DropNode(FairPeers)
  \/ Receive(NeighboursFrom(FairPeers, {4}))
  \/ CheckEvictionsTimer
  \/ DiscoveryTimer(LookupTargets)
  \/ DiscoverRoundTimer
  \/ Tick

FairLookupSpec ==
  /\ Init
  /\ [][FairNext]_vars
  /\ WF_vars(DiscoveryTimer(LookupTargets))
  /\ WF_vars(DiscoverRoundTimer)

(* ---- shutdown while timers are pending --------------------------------- *)
\* a table with probes and lookups running is destroyed; what remains is the
\* executor draining the callbacks of the timers that were pending
\* the stored nodes are loaded, each one once
LoadNodes(nodes) ==
  \E n \in nodes : m_allNodes[n.id] = NoGen /\ AddNodeKnown({n})

ShutdownNext ==
  \/ LoadNodes(Nodes(TablePeers, {"pub"}))
  \/ CheckEvictionsTimer
  \/ DiscoveryTimer(LookupTargets)
  \/ DiscoverRoundTimer
  \/ Tick
  \/ Shutdown

ShutdownSpec ==
  /\ Init
  /\ [][ShutdownNext]_vars
  /\ WF_vars(isStopped /\ CheckEvictionsTimer)
  /\ WF_vars(isStopped /\ DiscoveryTimer(LookupTargets))
  /\ WF_vars(isStopped /\ DiscoverRoundTimer)

(* ---- the locks ---------------------------------------------------------- *)
(* What a call does with the mutexes, path by path: the sequence of lock,    *)
(* unlock, send, schedule and appendEvent steps of each path through a       *)
(* function.  The conditions that select a path are not evaluated: every     *)
(* path is a program a thread can run.                                       *)
Lock(x) == [op |-> "lock", lock |-> x]
Unlock(x) == [op |-> "unlock", lock |-> x]
Do(what) == [op |-> what, lock |-> "none"]

\* DEV_GUARDED(x) { ... } and Guard l(x) over a block without calls
Guarded(x) == <<Lock(x), Unlock(x)>>

Cat(A, B) == {a \o b : a \in A, b \in B}
Opt(A) == A \cup {<<>>}

\* up to n runs of a path of A, one after the other
RECURSIVE UpTo(_, _)
UpTo(A, n) == IF n = 0 THEN {<<>>} ELSE Opt(Cat(A, UpTo(A, n - 1)))

nodeEntryLocks == {Guarded("x_nodes")}
pingLocks == {Guarded("x_nodes") \o <<Do("send")>>}
doCheckEvictionsLocks == {<<Do("schedule")>>}
doDiscoveryLocks == {<<Do("schedule")>>}

evictLocks ==
  Opt(Cat(Cat({Guarded("x_evictions")}, Opt(doCheckEvictionsLocks)), pingLocks))

\* the block under x_state: the splice, or the push_back with its event, or
\* the front entry taken for eviction
noteActiveNodeLocks ==
  Opt(nodeEntryLocks
      \cup Cat(nodeEntryLocks,
               {Guarded("x_state"),
                <<Lock("x_state"), Do("appendEvent"), Unlock("x_state")>>}
               \cup Cat({Guarded("x_state")}, evictLocks)))

dropNodeLocks ==
  {Guarded("x_state") \o Guarded("x_nodes") \o <<Do("appendEvent")>>}

addNodeKnownLocks == Cat({Guarded("x_nodes")}, noteActiveNodeLocks)

addNodeUnknownLocks ==
  Opt({Guarded("x_nodes")}
      \cup Cat({Guarded("x_nodes") \o Guarded("x_nodes")}, pingLocks))

nodesLocks == {Guarded("x_nodes")}
snapshotLocks == {Guarded("x_state")}
nodeLocks == {Guarded("x_nodes")}

\* one Guard l(x_state) per bucket visited
nearestNodeEntriesLocks == UpTo({Guarded("x_state")}, s_bins)

doDiscoverLocks ==
  Opt(doDiscoveryLocks
      \cup Cat(nearestNodeEntriesLocks, doDiscoveryLocks)
      \cup Cat(Cat(nearestNodeEntriesLocks,
                   Cat({Guarded("x_findNodeTimeout") \o <<Do("send")>>},
                       UpTo({Guarded("x_findNodeTimeout") \o <<Do("send")>>},
                            s_alpha - 1))),
               {<<Do("schedule")>>}))

onPongLocks ==
  Cat(Cat({Guarded("x_evictions")},
          nodeEntryLocks
          \cup Cat(Cat(nodeEntryLocks, Opt(dropNodeLocks)), nodeEntryLocks)),
      {Guarded("x_nodes")})

onNeighboursLocks ==
  Cat({Guarded("x_findNodeTimeout")}, UpTo(addNodeUnknownLocks, MaxNeighbours))

onFindNodeLocks == Cat(nearestNodeEntriesLocks, Opt({<<Do("send")>>}))

onPingNodeLocks == Cat(addNodeUnknownLocks, {<<Do("send")>>})

onPacketReceivedLocks ==
  Opt(Cat(onPongLocks \cup onNeighboursLocks \cup onFindNodeLocks
          \cup onPingNodeLocks,
          noteActiveNodeLocks))

\* the sweep that takes x_nodes before x_evictions
checkEvictionsLocks_nodesFirst ==
  Opt(Cat(Cat(Cat({<<Lock("x_nodes"), Lock("x_evictions"),
                     Unlock("x_evictions"), Unlock("x_nodes")>>},
                  UpTo(dropNodeLocks, MaxEvictions)),
              UpTo(noteActiveNodeLocks, MaxEvictions)),
          Opt(doCheckEvictionsLocks)))

\* Guard le(x_evictions); Guard ln(x_nodes); released in the reverse order
checkEvictionsLocks ==
  Opt(Cat(Cat(Cat({<<Lock("x_evictions"), Lock("x_nodes"),
                     Unlock("x_nodes"), Unlock("x_evictions")>>},
                  UpTo(dropNodeLocks, MaxEvictions)),
              UpTo(noteActiveNodeLocks, MaxEvictions)),
          Opt(doCheckEvictionsLocks)))

ExecutorCalls ==
  onPacketReceivedLocks \cup checkEvictionsLocks \cup doDiscoverLocks

CallerCalls ==
  addNodeKnownLocks \cup addNodeUnknownLocks \cup nodesLocks
  \cup snapshotLocks \cup nodeLocks \cup dropNodeLocks

Calls(t) == (IF t = "executor" THEN ExecutorCalls ELSE CallerCalls) \ {<<>>}

Holds(t, x) == \E k \in 1 .. Len(threads[t].held) : threads[t].held[k] = x

tableVars == <<m_allNodes, heap, m_buckets, m_evictions, m_findNodeTimeout,
               sweepTimers, lookup, isOpen, isStopped, sent, events, unmatched,
               last>>

\* the locks a thread holds after the step s
Held(held, s) ==
  CASE s.op = "lock" -> Append(held, s.lock)
    [] s.op = "unlock" -> SelectSeq(held, LAMBDA x : x # s.lock)
    [] OTHER -> held

\* a thread enters a call
Begin ==
  \E t \in Threads :
    /\ threads[t].prog = <<>>
    /\ \E p \in Calls(t) :
         threads' = [threads EXCEPT ![t] = [Idle EXCEPT !.prog = p, !.at = "call"]]
    /\ UNCHANGED tableVars

\* a thread takes the next step of its call; a lock that is held makes it wait
Run ==
  \E t \in Threads :
    /\ threads[t].prog # <<>>
    /\ LET s == Head(threads[t].prog)
           held == threads[t].held
       IN /\ s.op = "lock" => \A u \in Threads : ~Holds(u, s.lock)
          /\ threads' = [threads EXCEPT ![t] =
               [@ EXCEPT !.prog = Tail(threads[t].prog),
                         !.held = Held(held, s),
                         !.at = s.op]]
    /\ UNCHANGED tableVars

ThreadNext == Begin \/ Run

ThreadSpec == Init /\ [][ThreadNext]_vars

(* ---- the events the handler is given ------------------------------------ *)
EventInit == New(NodeIDs)

EventNext ==
  \/ AddNodeKnown(Nodes(TablePeers, {"pub"}))
  \/ DropNode(TablePeers)
  \/ Receive(Pongs(TablePeers))
  \/ CheckEvictionsTimer
  \/ Tick

EventSpec == EventInit /\ [][EventNext]_vars

(* ---- the sweep and the clock, fairly scheduled -------------------------- *)
\* A scheduled sweep callback is called when its interval has passed, and the
\* steady clock goes on: neither waits for ever.  The callers and the peers
\* are under no obligation.
FairEvictNext ==
  \/ LoadNodes(Nodes(TablePeers, {"pub"}))
  \/ DropNode(TablePeers)
  \/ Receive(Pongs(TablePeers))
  \/ CheckEvictionsTimer
  \/ Tick

FairEvictSpec ==
  /\ Init
  /\ [][FairEvictNext]_vars
  /\ WF_vars(CheckEvictionsTimer)
  /\ WF_vars(Tick)

(* ---- addNode(_node, Unknown), statement by statement -------------------- *)
\* The statements of addNode for an unknown node that passes the check of the
\* endpoint and the id: the count under x_nodes, make_shared, the assignment
\* under x_nodes, then ping (which reads the host endpoint under x_nodes and
\* sends).
addNodeUnknownSteps ==
  <<Lock("x_nodes"), Do("count"), Unlock("x_nodes"),
    Do("make_shared"),
    Lock("x_nodes"), Do("store"), Unlock("x_nodes"),
    Lock("x_nodes"), Unlock("x_nodes"), Do("send")>>

\* the PingNode case of onPacketReceived: addNode of the sender, the Pong,
\* then noteActiveNode, whose lookup of the entry is under x_nodes
onPingNodeSteps ==
  addNodeUnknownSteps
    \o <<Do("pong"), Lock("x_nodes"), Do("noteActiveNode"), Unlock("x_nodes")>>

\* what is left of a call when addNode returns from within the guarded count:
\* the lock is released and the caller of addNode goes on
RECURSIVE AfterAddNode(_)
AfterAddNode(prog) ==
  IF prog = <<>> THEN <<>>
  ELSE IF Head(prog) = Do("send") THEN Tail(prog)
  ELSE AfterAddNode(Tail(prog))

RacePeers == {4, 5}

\* a caller thread enters addNode(n, Unknown); the executor takes a PingNode
\* packet of n.id received from n.ep
BeginAddNode ==
  \E t \in Threads, n \in Nodes(RacePeers, FromAddrs) :
    /\ threads[t].prog = <<>>
    /\ t = "executor" => isOpen
    /\ threads' = [threads EXCEPT ![t] =
         [Idle EXCEPT !.prog = IF t = "executor" THEN onPingNodeSteps
                                ELSE addNodeUnknownSteps,
                      !.at = "call",
                      !.node = n]]
    /\ UNCHANGED tableVars

\* the effect of the statement s of thread t on the table, and the statements
\* left to the thread after it
Statement(t, s) ==
  LET n == threads[t].node
      rest == Tail(threads[t].prog)
  IN CASE s.op = "count" ->
            [st |-> Cur,
             prog |-> IF m_allNodes[n.id] # NoGen
                        THEN <<Unlock("x_nodes")>> \o AfterAddNode(rest)
                        ELSE rest]
       [] s.op = "store" ->
            [st |-> StoreEntry(Cur, n.id, NodeEntry(hostId, n.id, n.ep)),
             prog |-> rest]
       [] s.op = "send" -> [st |-> ping(Cur, n.id), prog |-> rest]
       [] s.op = "pong" ->
            [st |-> Send(Cur, [type |-> "Pong", to |-> n.id]), prog |-> rest]
       [] s.op = "noteActiveNode" ->
            [st |-> noteActiveNode(Cur, n.id, n.ep), prog |-> rest]
       [] OTHER -> [st |-> Cur, prog |-> rest]

RunAddNode ==
  \E t \in Threads :
    /\ threads[t].prog # <<>>
    /\ LET s == Head(threads[t].prog)
           r == Statement(t, s)
       IN /\ s.op = "lock" => \A u \in Threads : ~Holds(u, s.lock)
          /\ Assign(r.st)
          /\ threads' = [threads EXCEPT ![t] =
               [@ EXCEPT !.prog = r.prog,
                         !.held = Held(threads[t].held, s),
                         !.at = s.op,
                         !.did = IF s.op \in {"make_shared", "store", "send"}
                                   THEN @ \cup {s.op} ELSE @]]
    /\ UNCHANGED <<lookup, isOpen, isStopped, last>>

RaceNext == BeginAddNode \/ RunAddNode

RaceSpec == Init /\ [][RaceNext]_vars

(* ======================================================================== *)
(* Properties                                                               *)
(* ======================================================================== *)
Live(b) == SelectSeq(m_buckets[b], LAMBDA n : n # Expired)
LiveIds(b) == {Live(b)[k][1] : k \in 1 .. Len(Live(b))}
Members(b) == {m_buckets[b][k] : k \in 1 .. Len(m_buckets[b])} \ {Expired}
Received(type) ==
  /\ last.op = "onPacketReceived"
  /\ last.type = type
  /\ last.fault = "none"

\* C1: every bucket holds at most s_bucketSize live entries, and no two live
\* entries of a bucket have the same node id.
C1_BucketsBoundedUnique ==
  \A b \in Bins :
    /\ Len(Live(b)) <= s_bucketSize
    /\ \A j, k \in 1 .. Len(Live(b)) : Live(b)[j][1] = Live(b)[k][1] => j = k

\* C2: the host's own id is never a key of m_allNodes.
C2_SelfNeverInAllNodes == m_allNodes[hostId] = NoGen

\* C3: every live entry found in bucket i has distance (the stored field and
\* the distance of its id from the host) i + 1, is not pending, and is not
\* the host.
C3_BucketEntriesPlaced ==
  \A b \in Bins : \A k \in 1 .. Len(Live(b)) :
    LET e == Live(b)[k] IN
    /\ heap[e].distance = distance(hostId, e[1])
    /\ heap[e].distance = b + 1
    /\ heap[e].pending = FALSE
    /\ e[1] # hostId

\* a bucket other than the deepest one is in use, and the deepest one is full
C3_Witness ==
  /\ \E b \in Bins : b # s_bins - 1 /\ Len(Live(b)) > 0
  /\ \E b \in Bins : Len(Live(b)) = s_bucketSize

\* C8: a datagram that fails to decode or has expired changes nothing: no
\* packet is sent, no event is emitted, and the node map, the buckets, the
\* eviction probes, the FindNode timeouts and the timers are as before.
C8_BadDatagramIgnored ==
  [][(last'.op = "onPacketReceived" /\ last'.fault # "none")
       => /\ UNCHANGED <<m_allNodes, heap, m_buckets, m_evictions,
                         m_findNodeTimeout, sweepTimers, lookup, isOpen,
                         isStopped, unmatched, threads>>
          /\ sent' = <<>>
          /\ events' = <<>>]_vars

\* an expired Ping has been handled in a state with a populated table
C8_Witness ==
  /\ last.op = "onPacketReceived"
  /\ last.fault = "expired"
  /\ \E b \in Bins : Len(Live(b)) = s_bucketSize
  /\ DOMAIN m_evictions # {}

FindNodesSent == SelectSeq(sent, LAMBDA pkt : pkt.type = "FindNode")
TriedIds == {h[1] : h \in lookup.tried}
RoundRan == last.op \in {"doDiscovery", "doDiscover"}

\* C7: a Neighbours packet from a source with no findNodeTimeout entry
\* younger than c_reqTimeout leaves the keys of m_allNodes, and the entries
\* they own, as they were.
C7_UnsolicitedNeighboursDiscarded ==
  [][(Received("Neighbours")'
        /\ ~\E t \in m_findNodeTimeout : t[1] = last'.id /\ t[2] < c_reqTimeout)
       => m_allNodes' = m_allNodes]_vars

\* during a lookup a Neighbours packet has come from a node of the table that
\* has no entry in findNodeTimeout, and the node it can name is not in
\* m_allNodes
C7_Witness ==
  /\ Received("Neighbours")
  /\ lookup.timer = "round"
  /\ m_allNodes[last.id] # NoGen
  /\ ~\E t \in m_findNodeTimeout : t[1] = last.id
  /\ m_allNodes[6] = NoGen

\* C9: a lookup sends packets in at most s_maxSteps rounds, at most s_alpha
\* FindNode packets in a round, and never a FindNode to a node id that an
\* earlier round of the same lookup has sent one to.
C9_NoPeerQueriedTwice ==
  [][RoundRan'
       => /\ Len(FindNodesSent') <= s_alpha
          /\ (FindNodesSent' # <<>> => lookup'.round < s_maxSteps)
          /\ (last'.op = "doDiscover" =>
                \A k \in 1 .. Len(FindNodesSent') :
                  FindNodesSent'[k].to \notin TriedIds)]_vars

BucketOf(id) == distance(hostId, id) - 1
Tail1(q) == q[Len(q)]
Dropped(id) == [kind |-> "NodeEntryDropped", id |-> id]
Added(id) == [kind |-> "NodeEntryAdded", id |-> id]

\* the Pong of a probed incumbent I, received while its probe is no older
\* than c_reqTimeout, leaves the table resolved in I's favour
PongResolves(I) ==
  LET N == m_evictions[I].newNodeID
      b == BucketOf(I)
  IN /\ I \notin DOMAIN m_evictions'
     /\ m_allNodes'[N] = NoGen
     /\ m_allNodes'[I] # NoGen
     /\ m_buckets'[b] # <<>>
     /\ Tail1(m_buckets'[b]) = <<I, 0>>
     /\ LiveIds(b)' = LiveIds(b)

InTimePong(I) ==
  /\ Received("Pong")'
  /\ last'.id = I
  /\ m_evictions[I].age <= c_reqTimeout

\* C4 as stated: whenever a Pong from the incumbent I of an outstanding probe
\* (I, N) is handled within c_reqTimeout of the probe's start, the probe is
\* removed, N is not in m_allNodes, I is in m_allNodes and last in its
\* bucket, and the bucket has the members it had.
C4_AsStated ==
  [][\A I \in DOMAIN m_evictions : InTimePong(I) => PongResolves(I)]_vars

\* the sweep treats the incumbent I of a timed-out probe as dead and promotes
\* the replacement
SweepPromotes(I) ==
  LET N == m_evictions[I].newNodeID
      b == BucketOf(I)
  IN /\ I \notin DOMAIN m_evictions'
     /\ m_allNodes'[I] = NoGen
     /\ I \notin LiveIds(b)'
     /\ m_allNodes'[N] # NoGen
     /\ m_buckets'[b] # <<>>
     /\ Tail1(m_buckets'[b]) = <<N, 0>>
     /\ events' = <<Dropped(I), Added(N)>>

TimedOutSweep(I) ==
  /\ last'.op = "doCheckEvictions"
  /\ m_evictions[I].age > c_reqTimeout

\* C5 as stated: the sweep that follows the timeout of a probe (I, N) removes
\* the probe, drops I from its bucket and from m_allNodes with
\* NodeEntryDropped(I), and then puts N at the tail of the bucket with
\* NodeEntryAdded(N).
C5_AsStated ==
  [][\A I \in DOMAIN m_evictions : TimedOutSweep(I) => SweepPromotes(I)]_vars

\* noteActiveNode is called for a non-pending node N that is not in its
\* bucket, and the bucket holds s_bucketSize live entries
FullBucketCall(N) ==
  LET h == nodeEntry(Cur, N)
      b == BucketOf(N)
  IN /\ h # Null
     /\ heap[h].pending = FALSE
     /\ Len(Live(b)) = s_bucketSize
     /\ h \notin Members(b)

\* the call starts one probe of the front entry and leaves the bucket alone
StartsOneProbe(N) ==
  LET r == noteActiveNode(Cur, N, "pub")
      front == Head(m_buckets[BucketOf(N)])[1]
  IN /\ DOMAIN r.evict = (DOMAIN m_evictions) \cup {front}
     /\ Cardinality(DOMAIN r.evict) = Cardinality(DOMAIN m_evictions) + 1
     /\ r.evict[front] = [newNodeID |-> N, age |-> 0]
     /\ r.sent = <<[type |-> "Ping", to |-> front]>>
     /\ r.buckets = m_buckets

ProbeStands(I) ==
  LET N == m_evictions[I].newNodeID
  IN /\ nodeEntry(Cur, I) \in Members(BucketOf(I))
     /\ nodeEntry(Cur, N) \notin Members(BucketOf(N))
     /\ isAllowed(last'.ep)

\* C4: when a Pong from the incumbent I of an outstanding probe (I, N) is
\* handled within c_reqTimeout of the probe's start, I's entry being in its
\* bucket, N being in no bucket and the Pong coming from an allowed address,
\* then the probe is removed, N is not in m_allNodes, I is in m_allNodes and
\* last in its bucket, and the bucket has the members it had before the Pong.
C4_PongKeepsIncumbent ==
  [][\A I \in DOMAIN m_evictions :
       (InTimePong(I) /\ ProbeStands(I)) => PongResolves(I)]_vars

\* a Pong has resolved a probe: the replacement was dropped and the incumbent
\* is last in a bucket that holds another entry before it
C4_Witness ==
  /\ Received("Pong")
  /\ isAllowed(last.ep)
  /\ m_evictions = <<>>
  /\ \E N \in Peers \ {last.id} : events = <<Dropped(N)>>
  /\ Len(Live(BucketOf(last.id))) = s_bucketSize
  /\ Tail1(m_buckets[BucketOf(last.id)]) = <<last.id, 0>>

C10_LookupsTerminateAndRecur ==
  /\ [](isOpen => lookup.timer \in {"refresh", "round"})
  /\ (lookup.timer = "round") ~> (lookup.timer = "refresh")
  /\ (lookup.timer = "refresh") ~> (last.op = "doDiscovery")

\* a round timer has ended a lookup that sent FindNode packets, and the next
\* random discovery is scheduled
C10_Witness ==
  /\ isOpen
  /\ last.op = "doDiscover"
  /\ lookup.timer = "refresh"
  /\ m_findNodeTimeout # {}

(* ---- noteActiveNode called again ---------------------------------------- *)
\* the members a call of noteActiveNode can change
Table(st) == <<st.nodes, st.heap, st.buckets, st.evict, st.fnt, st.sweeps>>

\* noteActiveNode is called for N, whose entry is not pending, with an
\* allowed endpoint
ActiveCall(N) ==
  /\ nodeEntry(Cur, N) # Null
  /\ heap[nodeEntry(Cur, N)].pending = FALSE

\* the call finds N's entry in its bucket or a place for it: a free slot or
\* a front slot whose entry is gone
HasPlace(N) ==
  LET nodes == m_buckets[BucketOf(N)]
  IN \/ nodeEntry(Cur, N) \in Members(BucketOf(N))
     \/ Len(nodes) < s_bucketSize
     \/ Head(nodes) = Expired

\* a second call leaves the table as the first one did, with N's entry once
\* in its bucket, at the tail
SecondCallChangesNothing(N) ==
  LET once == noteActiveNode(Cur, N, "pub")
      twice == noteActiveNode(once, N, "pub")
      nodes == twice.buckets[BucketOf(N)]
      h == nodeEntry(twice, N)
  IN /\ Table(twice) = Table(once)
     /\ nodes # <<>>
     /\ Tail1(nodes) = h
     /\ Cardinality({k \in 1 .. Len(nodes) : nodes[k] = h}) = 1

\* C11 as stated: for every node whose pending flag is cleared, calling
\* noteActiveNode twice in a row with the same id and allowed endpoint leaves
\* the table as one call does, the node being once in its bucket, at the tail.
C11_AsStated ==
  \A N \in Peers : ActiveCall(N) => SecondCallChangesNothing(N)

\* C11: for a node whose pending flag is cleared and whose entry is in its
\* bucket or finds a place there (a free slot, or a front slot whose entry is
\* gone), calling noteActiveNode twice in a row with the same id and allowed
\* endpoint leaves the table as one call does, with the node's entry once in
\* its bucket, at the tail.
C11_NoteActiveNodeIdempotent ==
  \A N \in Peers : (ActiveCall(N) /\ HasPlace(N)) => SecondCallChangesNothing(N)

\* a packet from a node of the table has just been handled from an allowed
\* address, the node's entry is last in a bucket it shares with another
\* entry, and a further call would move nothing
C11_Witness ==
  /\ last.op = "onPacketReceived"
  /\ last.fault = "none"
  /\ isAllowed(last.ep)
  /\ ActiveCall(last.id)
  /\ Len(Live(BucketOf(last.id))) = s_bucketSize
  /\ Tail1(m_buckets[BucketOf(last.id)]) = nodeEntry(Cur, last.id)
  /\ Table(noteActiveNode(Cur, last.id, last.ep)) = Table(Cur)

(* ---- findNodeTimeout after a Neighbours packet -------------------------- *)
\* C16: after a Neighbours packet from a source has been handled,
\* m_findNodeTimeout holds no entry for that source, whether the packet was
\* accepted or dropped.
C16_NeighboursClearsTimeouts ==
  [][Received("Neighbours")'
       => ~\E t \in m_findNodeTimeout' : t[1] = last'.id]_vars

(* ---- the entries nearestNodeEntries returns ----------------------------- *)
\* the live entries of all buckets whose endpoint is specified and allowed
Candidates ==
  {h \in UNION {Members(b) : b \in Bins} :
     isSpecified(heap[h].endpoint) /\ isAllowed(heap[h].endpoint)}

Min(a, b) == IF a < b THEN a ELSE b

\* C17: for every target nearestNodeEntries returns min(s_bucketSize, n)
\* entries, n being the number of live bucket entries with an allowed
\* endpoint, in ascending order of distance to the target, and no entry left
\* out is closer to the target than one returned.
C17_NearestAreClosest ==
  \A target \in IdSpace :
    LET r == nearestNodeEntries(Cur, target)
        got == {r[k] : k \in 1 .. Len(r)}
    IN /\ Len(r) = Min(s_bucketSize, Cardinality(Candidates))
       /\ \A j, k \in 1 .. Len(r) :
            j < k => distance(target, r[j][1]) <= distance(target, r[k][1])
       /\ \A h \in Candidates \ got : \A g \in got :
            distance(target, h[1]) >= distance(target, g[1])

(* ---- weak references and their owner ------------------------------------ *)
\* C18: a bucket slot refers to a live entry exactly when m_allNodes owns that
\* entry under its id.
C18_LiveIffOwned ==
  \A b \in Bins : \A k \in 1 .. Len(m_buckets[b]) :
    LET h == m_buckets[b][k]
    IN h # Expired <=> (h[1] \in NodeIDs /\ nodeEntry(Cur, h[1]) = h)

(* ---- the sweep timers evict schedules ----------------------------------- *)
\* C19: at most one sweep timer is pending, and an evict for an incumbent that
\* has a probe leaves the evictions map as it is and schedules no sweep.
C19_EvictSchedulesOneSweep ==
  /\ sweepTimers <= 1
  /\ \A I \in DOMAIN m_evictions : \A N \in Peers \ {I} :
       LET r == evict(Cur, <<I, 0>>, <<N, 0>>)
       IN r.evict = m_evictions /\ r.sweeps = sweepTimers

(* ---- a Ping from a node the table does not know ------------------------- *)
InBucket(id) == \E b \in Bins : id \in LiveIds(b)
IsPending(id) == nodeEntry(Cur, id) # Null /\ heap[nodeEntry(Cur, id)].pending

\* the Ping of a node P that m_allNodes does not hold is answered: P is
\* stored pending, a Ping goes to P, then the Pong with the Ping's hash, and
\* P is in no bucket
PingAnswered(P) ==
  /\ nodeEntry(Cur, P)' # Null
  /\ IsPending(P)'
  /\ sent' = <<[type |-> "Ping", to |-> P],
               [type |-> "Pong", to |-> P,
                echo |-> <<P, "PingNode", hostId, <<>>>>]>>
  /\ ~InBucket(P)'

PingFromStranger(P) ==
  /\ Received("PingNode")'
  /\ last'.id = P
  /\ nodeEntry(Cur, P) = Null

\* the step is the handling of a Pong from P and puts P in the bucket of its
\* distance, with NodeEntryAdded(P)
BucketedByPong(P) ==
  /\ Received("Pong")'
  /\ last'.id = P
  /\ P \in LiveIds(BucketOf(P))'
  /\ \E k \in 1 .. Len(events') : events'[k] = Added(P)

\* the step is addNode(P, Known), which replaces the pending entry
ReplacedByCaller(P) == last'.op = "addNodeKnown" /\ last'.id = P

\* C14 as stated: a Ping from a node P that is not in m_allNodes stores P
\* pending, sends a Ping and the echoing Pong to P and leaves P out of the
\* buckets; and a pending P comes to be in a bucket only in the step that
\* handles a Pong from P.
C14_AsStated ==
  [][\A P \in Peers :
       /\ PingFromStranger(P) => PingAnswered(P)
       /\ (IsPending(P) /\ InBucket(P)') => BucketedByPong(P)]_vars

\* C14: a Ping from a node P that is not in m_allNodes stores P pending,
\* sends a Ping and the echoing Pong to P and leaves P out of the buckets;
\* and a pending P comes to be in a bucket only in the step that handles a
\* Pong from P, or when a caller replaces its entry with addNode(P, Known).
C14_PingThenPongBuckets ==
  [][\A P \in Peers :
       /\ PingFromStranger(P) => PingAnswered(P)
       /\ (IsPending(P) /\ InBucket(P)')
            => (BucketedByPong(P) \/ ReplacedByCaller(P))]_vars

\* the Ping of a node that m_allNodes did not hold has been answered with a
\* Ping and the echoing Pong; the node is pending, and its bucket holds
\* another node but not this one
C14_Witness ==
  /\ Received("PingNode")
  /\ IsPending(last.id)
  /\ sent = <<[type |-> "Ping", to |-> last.id],
              [type |-> "Pong", to |-> last.id,
               echo |-> <<last.id, "PingNode", hostId, <<>>>>]>>
  /\ Live(BucketOf(last.id)) # <<>>
  /\ ~InBucket(last.id)

(* ---- the table constructed disabled ------------------------------------- *)
\* C13: while a table constructed with enabled = false is in use, the socket
\* is not open, no discovery timer, lookup or sweep timer has been started,
\* and no bucket holds an entry.
C13_DisabledStaysEmpty ==
  (~isOpen /\ ~isStopped)
    => /\ lookup.timer = "none"
       /\ m_findNodeTimeout = {}
       /\ sweepTimers = 0
       /\ \A b \in Bins : Live(b) = <<>>

(* ---- timer callbacks after shutdown ------------------------------------- *)
PendingTimers == sweepTimers + (IF lookup.timer = "none" THEN 0 ELSE 1)

TimerFired ==
  last.op \in {"doCheckEvictions", "doDiscovery", "doDiscover"}

\* the tables are as they were; a bucket slot can only have lost its entry
Untouched ==
  /\ UNCHANGED <<m_allNodes, m_evictions, m_findNodeTimeout>>
  /\ \A b \in Bins :
       /\ Len(m_buckets'[b]) = Len(m_buckets[b])
       /\ \A k \in 1 .. Len(m_buckets[b]) :
            m_buckets'[b][k] \in {m_buckets[b][k], Expired}
  /\ sent' = <<>>
  /\ events' = <<>>
  /\ UNCHANGED unmatched

\* C15: once the timers are stopped, a sweep, discovery or round callback
\* that sees operation_aborted or the stopped timers leaves the tables as
\* they are and schedules nothing, so that one timer fewer is pending; and
\* the pending timers drain until none is left.
C15_CancelledCallbacksReturn ==
  /\ [][(isStopped /\ TimerFired') =>
          (Untouched /\ PendingTimers' = PendingTimers - 1)]_vars
  /\ isStopped ~> (PendingTimers = 0)

\* the last callback of a table that was shut down with a sweep timer and a
\* round timer pending and a probe in the evictions map has returned
C15_Witness ==
  /\ isStopped
  /\ TimerFired
  /\ last.type = "operation_aborted"
  /\ PendingTimers = 0
  /\ m_evictions # <<>>
  /\ m_findNodeTimeout # {}

(* ---- locks and the event sink -------------------------------------------- *)
\* C12: a thread that has just called appendEvent holds none of x_nodes,
\* x_state, x_evictions and x_findNodeTimeout.
C12_NoEventUnderLock ==
  \A t \in Threads : threads[t].at = "appendEvent" => threads[t].held = <<>>

(* ---- lock order and deadlock --------------------------------------------- *)
\* the thread that holds the lock t is waiting for, or t itself when it waits
\* for nothing
WaitsFor(t) ==
  IF /\ threads[t].prog # <<>>
     /\ Head(threads[t].prog).op = "lock"
     /\ \E u \in Threads : Holds(u, Head(threads[t].prog).lock)
    THEN CHOOSE u \in Threads : Holds(u, Head(threads[t].prog).lock)
    ELSE "nobody"

RECURSIVE WaitsInCycle(_, _, _)
WaitsInCycle(t, u, n) ==
  IF n = 0 \/ u = "nobody" THEN FALSE
  ELSE WaitsFor(u) = t \/ WaitsInCycle(t, WaitsFor(u), n - 1)

Position(q, x) == CHOOSE k \in 1 .. Len(q) : q[k] = x

\* C20: no thread waits for a lock in a cycle of waiting threads; a thread
\* that holds x_evictions and x_nodes took x_evictions first; no thread asks
\* for x_evictions while it holds x_nodes; and a thread that sends on the
\* socket or schedules a timer holds no lock.
C20_NoDeadlock ==
  \A t \in Threads :
    /\ ~WaitsInCycle(t, t, Cardinality(Threads))
    /\ (Holds(t, "x_evictions") /\ Holds(t, "x_nodes"))
         => Position(threads[t].held, "x_evictions")
              < Position(threads[t].held, "x_nodes")
    /\ (threads[t].prog # <<>> /\ Head(threads[t].prog) = Lock("x_evictions"))
         => ~Holds(t, "x_nodes")
    /\ threads[t].at \in {"send", "schedule"} => threads[t].held = <<>>

\* the executor is in the sweep and holds x_evictions and x_nodes, one caller
\* waits for x_nodes and the other holds x_state
C20_Witness ==
  /\ threads["executor"].held = <<"x_evictions", "x_nodes">>
  /\ WaitsFor("caller1") = "executor"
  /\ threads["caller2"].held = <<"x_state">>

\* the call thread t is in, or has just finished, is for id and has executed
\* the statement what
Did(t, id, what) == threads[t].node.id = id /\ what \in threads[t].did

\* C21: addNode(node, unknown) never replaces an entry AllNodes already owns,
\* also when two calls for the same id run at the same time: of the calls in
\* progress or just finished, at most one has created a NodeEntry for the id,
\* at most one has assigned it into AllNodes and at most one has sent its Ping.
C21_OneEntryOnePing ==
  \A id \in Peers : \A what \in {"make_shared", "store", "send"} :
    Cardinality({t \in Threads : Did(t, id, what)}) <= 1

\* the event handler is given NodeEntryDropped(id) by this step while every
\* NodeEntryAdded(id) it was given before is already matched
DroppedUnmatched(id) ==
  \E k \in 1 .. Len(events') :
    /\ events'[k] = Dropped(id)
    /\ id \in DOMAIN unmatched
    /\ Deliver(unmatched, SubSeq(events', 1, k - 1))[id] = 0

\* C22: in the sequence of events given to the event handler, every
\* NodeEntryDropped(id) is preceded by a NodeEntryAdded(id) that no earlier
\* NodeEntryDropped(id) has matched.
C22_DroppedAfterAdded ==
  [][\A id \in Peers : ~DroppedUnmatched(id)]_vars

\* C23: every probe recorded in m_evictions is removed in the end, by an
\* in-time Pong of the incumbent or by a sweep after c_reqTimeout, whether or
\* not the incumbent is still in m_allNodes; so the map does not stay
\* non-empty and the sweep does not reschedule itself for ever.
C23_ProbeRemovedInTheEnd ==
  \A I \in Peers : (I \in DOMAIN m_evictions) ~> (I \notin DOMAIN m_evictions)

====
